---- MODULE Spec2Model ----
(***************************************************************************)
(* A model of lib/raml2html.js: the resource-tree annotation pass          *)
(* (parseBaseUri, makeUniqueId, traverse), the render helpers, the         *)
(* compilation driver with the template engine's process-wide registry,    *)
(* the source loader and the command-line entry point.                     *)
(*                                                                         *)
(* JavaScript values are encoded as follows.  A string is the sequence of  *)
(* its characters.  A value that may be undefined is an option: None (the  *)
(* empty sequence) or Some(v) (the one-element sequence <<v>>).  An object *)
(* whose keys are enumerated by for-in is the sequence of its values in    *)
(* enumeration order.                                                      *)
(***************************************************************************)
EXTENDS Integers, Sequences, FiniteSets, TLC

VARIABLES
    ramlObj,      \* the parsed document handed to the annotation pass
    stage,        \* "parsed", then "annotated" (once), then "reannotated"
    securedBy,    \* the securedBy list of a method, as the template passes it
    text,         \* a description or example, as the template passes it
    helperCalls,  \* the helper invocations so far: helper, arg, after, result
    program,      \* commander's view of process.argv: input, output, args
    cli,          \* the command-line process: pc, parse input, output, exit
    calls,        \* the parseWithConfig invocations, in the order made
    registry,     \* handlebars' helpers and partials, one per process
    registrations,\* the configs compileRamlObj has registered, in order
    crashed       \* an exception reached the event loop and ended the process

annotateVars == <<ramlObj, stage>>
helperVars == <<securedBy, text, helperCalls>>
cliVars == <<program, cli>>
pipelineVars == <<calls, registry, registrations, crashed>>
vars == <<annotateVars, helperVars, cliVars, pipelineVars>>

----------------------------------------------------------------------------
(* Bounds of the model. *)

MaxNodes == 3
MaxParams == 2
MaxSecuredBy == 3
MaxHelperCalls == 3
MaxArgs == 2
MaxCalls == 2

----------------------------------------------------------------------------
(* Options and strings. *)

None == <<>>
Some(v) == <<v>>
IsSome(o) == Len(o) = 1
Get(o) == o[1]

\* s1 + s2 on strings.
Concat(s1, s2) == s1 \o s2

Letters ==
    {"a", "b", "c", "d", "e", "f", "g", "h", "i", "j", "k", "l", "m",
     "n", "o", "p", "q", "r", "s", "t", "u", "v", "w", "x", "y", "z",
     "A", "B", "C", "D", "E", "F", "G", "H", "I", "J", "K", "L", "M",
     "N", "O", "P", "Q", "R", "S", "T", "U", "V", "W", "X", "Y", "Z"}
Digits == {"0", "1", "2", "3", "4", "5", "6", "7", "8", "9"}
\* The characters /\w/ matches; /\W/ matches every other one.
WordChars == Letters \cup Digits \cup {"_"}

\* The relative URIs of the sample documents: letters, a digit, the
\* underscore, and the characters / { } outside [A-Za-z0-9_].
UriPool ==
    { <<"/", "a", "1">>, <<"/", "{", "b", "_", "}">> }

----------------------------------------------------------------------------
(* parseBaseUri: String.prototype.replace with a string pattern replaces   *)
(* the first occurrence only.  A base URI is a sequence of tokens, one of  *)
(* which may be the literal "{version}".                                   *)

RECURSIVE ReplaceFirst(_, _, _)
ReplaceFirst(s, pat, by) ==
    IF s = <<>> THEN <<>>
    ELSE IF Head(s) = pat THEN <<by>> \o Tail(s)
    ELSE <<Head(s)>> \o ReplaceFirst(Tail(s), pat, by)

parseBaseUri(obj) ==
    IF IsSome(obj.baseUri) /\ Get(obj.baseUri) # <<>>
    THEN [obj EXCEPT !.baseUri =
              Some(ReplaceFirst(Get(obj.baseUri), "{version}", obj.version))]
    ELSE obj

----------------------------------------------------------------------------
(* makeUniqueId: fullUrl.replace(/\W/g, '_').                              *)

ReplaceNonWord(s) ==
    [i \in 1..Len(s) |-> IF s[i] \in WordChars THEN s[i] ELSE "_"]

\* /\W/ without the g flag: only the first match is replaced.
RECURSIVE ReplaceFirstNonWord(_)
ReplaceFirstNonWord(s) ==
    IF s = <<>> THEN <<>>
    ELSE IF Head(s) \notin WordChars THEN <<"_">> \o Tail(s)
    ELSE <<Head(s)>> \o ReplaceFirstNonWord(Tail(s))

makeUniqueId_FirstOnly(resource) ==
    ReplaceFirstNonWord(Concat(Get(resource.parentUrl), resource.relativeUri))

makeUniqueId(resource) ==
    ReplaceNonWord(Concat(Get(resource.parentUrl), resource.relativeUri))

----------------------------------------------------------------------------
(* traverse.  The document's resources are numbered 1..Len(obj.nodes);     *)
(* obj.parent[i] is the resource (or 0, the document itself) whose         *)
(* `resources` holds resource i, and a `resources` collection enumerates   *)
(* its members by increasing number.                                       *)

\* The members of owner's `resources`, in for-in order.
RECURSIVE ChildrenFrom(_, _, _)
ChildrenFrom(parent, owner, i) ==
    IF i > Len(parent) THEN <<>>
    ELSE (IF parent[i] = owner THEN <<i>> ELSE <<>>)
         \o ChildrenFrom(parent, owner, i + 1)

Children(parent, owner) == ChildrenFrom(parent, owner, 1)

\* parentUrl || ''
OrEmpty(parentUrl) ==
    IF IsSome(parentUrl) /\ Get(parentUrl) # <<>> THEN Get(parentUrl) ELSE <<>>

\* The inherited parameters pushed by push.apply, none when the argument is
\* undefined.
Inherited(allUriParameters) ==
    IF IsSome(allUriParameters) THEN Get(allUriParameters) ELSE <<>>

\* The values of resource.uriParameters in for-in order, none when absent.
Own(resource) ==
    IF IsSome(resource.uriParameters) THEN Get(resource.uriParameters) ELSE <<>>

\* Faulty variants of the loop body: the resource's own parameters pushed before
\* the inherited ones, and the array kept from an earlier run instead of
\* being reset.
annotateResource_OwnFirst(resource, parentUrl, allUriParameters) ==
    LET r1 == [resource EXCEPT !.parentUrl = Some(OrEmpty(parentUrl))]
        r2 == [r1 EXCEPT !.uniqueId = Some(makeUniqueId(r1))]
    IN  [r2 EXCEPT !.allUriParameters =
             Some(Own(resource) \o Inherited(allUriParameters))]

annotateResource_NoReset(resource, parentUrl, allUriParameters) ==
    LET r1 == [resource EXCEPT !.parentUrl = Some(OrEmpty(parentUrl))]
        r2 == [r1 EXCEPT !.uniqueId = Some(makeUniqueId(r1))]
        kept == IF IsSome(resource.allUriParameters)
                THEN Get(resource.allUriParameters) ELSE <<>>
    IN  [r2 EXCEPT !.allUriParameters =
             Some(kept \o Inherited(allUriParameters) \o Own(resource))]

\* The body of the for loop, up to the recursive call.
annotateResource(resource, parentUrl, allUriParameters) ==
    LET r1 == [resource EXCEPT !.parentUrl = Some(OrEmpty(parentUrl))]
        r2 == [r1 EXCEPT !.uniqueId = Some(makeUniqueId(r1))]
        r3 == [r2 EXCEPT !.allUriParameters = Some(<<>>)]
        r4 == [r3 EXCEPT !.allUriParameters =
                   Some(Get(r3.allUriParameters) \o Inherited(allUriParameters))]
    IN  [r4 EXCEPT !.allUriParameters =
             Some(Get(r4.allUriParameters) \o Own(resource))]

\* The for loop over the remaining members `kids` of one `resources`
\* collection, each followed by the traversal of its own resources.
RECURSIVE traverseLoop(_, _, _, _, _)
traverseLoop(nodes, parent, kids, parentUrl, allUriParameters) ==
    IF kids = <<>> THEN nodes
    ELSE LET index == Head(kids)
             resource == annotateResource(nodes[index], parentUrl, allUriParameters)
             nodes1 == [nodes EXCEPT ![index] = resource]
             nodes2 == traverseLoop(nodes1, parent, Children(parent, index),
                           Some(Concat(Get(resource.parentUrl), resource.relativeUri)),
                           resource.allUriParameters)
         IN  traverseLoop(nodes2, parent, Tail(kids), parentUrl, allUriParameters)

\* traverse(ramlObj) as compileRamlObj calls it: parentUrl and
\* allUriParameters undefined.
traverse(obj) ==
    [obj EXCEPT !.nodes =
        traverseLoop(obj.nodes, obj.parent, Children(obj.parent, 0), None, None)]

----------------------------------------------------------------------------
(* The documents the parser can hand over: any forest of at most MaxNodes  *)
(* resources, each with a relative URI and absent, empty or non-empty      *)
(* uriParameters, none of them annotated.  Parameter k declared on         *)
(* resource i is the object <<i, k>>.                                      *)

\* c = -1: uriParameters absent; otherwise an object with c parameters.
DeclaredParams(i, c) ==
    IF c < 0 THEN None ELSE Some([k \in 1..c |-> <<i, k>>])

Parents(n) == {p \in [1..n -> 0..n] : \A i \in 1..n : p[i] < i}

FreshNode(uri, params) ==
    [relativeUri |-> uri, uriParameters |-> params,
     parentUrl |-> None, uniqueId |-> None, allUriParameters |-> None]

BaseUris ==
    {None, Some(<<"http://api/", "{version}">>)}

Document(n, b, p, u, c) ==
    [baseUri |-> b, version |-> "v1", parent |-> p,
     nodes |-> [i \in 1..n |-> FreshNode(u[i], DeclaredParams(i, c[i]))]]

\* The helpers' variables while no template is being rendered.
HelpersIdle ==
    /\ securedBy = None
    /\ text = None
    /\ helperCalls = <<>>

\* The command-line variables when the module is loaded as a library
\* (require.main !== module).
CliIdle ==
    /\ program = [input |-> None, output |-> None, args |-> <<>>]
    /\ cli = [pc |-> "library", parsing |-> None, stderr |-> <<>>,
              stdout |-> <<>>, file |-> None, exit |-> None]

HelperNames == {"lock", "md"}
PartialNames == {"resource"}

\* The pipeline's variables before parseWithConfig is first called.
PipelineIdle ==
    /\ calls = <<>>
    /\ registry = [helpers |-> [n \in HelperNames |-> None],
                   partials |-> [n \in PartialNames |-> None]]
    /\ registrations = <<>>
    /\ crashed = FALSE

InitAnnotate ==
    /\ HelpersIdle
    /\ CliIdle
    /\ PipelineIdle
    /\ \E n \in 0..MaxNodes :
         \E b \in BaseUris, p \in Parents(n), u \in [1..n -> UriPool],
            c \in [1..n -> -1..MaxParams] :
             ramlObj = Document(n, b, p, u, c)
    /\ stage = "parsed"

\* compileRamlObj's first two statements on the document; a document that
\* is compiled again is annotated again.
Annotate ==
    /\ ramlObj' = traverse(parseBaseUri(ramlObj))
    /\ stage' = IF stage = "parsed" THEN "annotated" ELSE "reannotated"
    /\ UNCHANGED <<helperVars, cliVars, pipelineVars>>

NextAnnotate == Annotate

SpecAnnotate == InitAnnotate /\ [][NextAnnotate]_vars

----------------------------------------------------------------------------
(* The render helpers.  '' is the empty string; a handlebars.SafeString is *)
(* the pair of the tag "SafeString" and what it wraps.  marked and         *)
(* highlightAuto are the libraries' conversions, kept symbolic.            *)

EmptyString == <<>>
SafeString(v) == <<"SafeString", v>>

LockIcon == SafeString("glyphicon-lock")

\* text && text.length
Truthy(t) == IsSome(t) /\ Len(Get(t)) # 0

markDownHelper(t) ==
    IF Truthy(t) THEN SafeString(<<"marked", Get(t)>>) ELSE EmptyString

highlightHelper(t) ==
    IF Truthy(t) THEN SafeString(<<"highlightAuto", Get(t)>>) ELSE EmptyString

Null == "null"
Schemes == {"oauth2", "basic"}

\* Array.prototype.indexOf: the first position (from 0) holding v, or -1.
IndexOf(list, v) ==
    IF \E i \in 1..Len(list) : list[i] = v
    THEN (CHOOSE i \in 1..Len(list) :
             list[i] = v /\ \A j \in 1..(i - 1) : list[j] # v) - 1
    ELSE -1

\* list.splice(index, 1): the list without the element at index (from 0).
Splice(list, index) ==
    SubSeq(list, 1, index) \o SubSeq(list, index + 2, Len(list))

\* lockIconHelper: what it returns, and the list it leaves behind (splice
\* works on the caller's array).
lockIconHelper(list) ==
    IF IsSome(list) /\ Len(Get(list)) # 0
    THEN LET index == IndexOf(Get(list), Null)
             spliced == IF index # -1 THEN Splice(Get(list), index)
                        ELSE Get(list)
         IN  [securedBy |-> Some(spliced),
              result |-> IF Len(spliced) # 0 THEN LockIcon ELSE EmptyString]
    ELSE [securedBy |-> list, result |-> EmptyString]

SeqsUpTo(S, n) == UNION {[1..k -> S] : k \in 0..n}

TextPool == {None, Some(<<>>), Some(<<"*", "*", "b", "*", "*">>)}

\* The annotation variables of a document without resources.
AnnotateIdle ==
    /\ ramlObj = Document(0, None, <<>>, <<>>, <<>>)
    /\ stage = "annotated"

InitHelpers ==
    /\ AnnotateIdle
    /\ CliIdle
    /\ PipelineIdle
    /\ securedBy \in {None} \cup {Some(l) : l \in SeqsUpTo({Null} \cup Schemes, MaxSecuredBy)}
    /\ text \in TextPool
    /\ helperCalls = <<>>

\* {{lock securedBy}} in the template.
CallLockIconHelper ==
    /\ Len(helperCalls) < MaxHelperCalls
    /\ LET out == lockIconHelper(securedBy) IN
         /\ securedBy' = out.securedBy
         /\ helperCalls' = Append(helperCalls,
                [helper |-> "lock", arg |-> securedBy,
                 after |-> out.securedBy, result |-> out.result])
    /\ UNCHANGED <<text, annotateVars, cliVars, pipelineVars>>

\* {{md description}} in the template.
CallMarkDownHelper ==
    /\ Len(helperCalls) < MaxHelperCalls
    /\ helperCalls' = Append(helperCalls,
            [helper |-> "md", arg |-> text, after |-> text,
             result |-> markDownHelper(text)])
    /\ UNCHANGED <<securedBy, text, annotateVars, cliVars, pipelineVars>>

\* {{highlight example}} in the template.
CallHighlightHelper ==
    /\ Len(helperCalls) < MaxHelperCalls
    /\ helperCalls' = Append(helperCalls,
            [helper |-> "highlight", arg |-> text, after |-> text,
             result |-> highlightHelper(text)])
    /\ UNCHANGED <<securedBy, text, annotateVars, cliVars, pipelineVars>>

NextHelpers ==
    \/ CallLockIconHelper
    \/ CallMarkDownHelper
    \/ CallHighlightHelper

SpecHelpers == InitHelpers /\ [][NextHelpers]_vars

----------------------------------------------------------------------------
(* The command-line entry point.  program.input is undefined without -i,   *)
(* true for -i without a value, and the path otherwise; program.args holds *)
(* the positional arguments.                                               *)

FlagOnly == "true"
FileNames == {"a.raml", "b.raml"}

InitCli ==
    /\ AnnotateIdle
    /\ HelpersIdle
    /\ PipelineIdle
    /\ \E i \in {None, Some(FlagOnly)} \cup {Some(f) : f \in FileNames},
          o \in {None, Some("out.html")},
          a \in SeqsUpTo(FileNames, MaxArgs) :
            program = [input |-> i, output |-> o, args |-> a]
    /\ cli = [pc |-> "start", parsing |-> None, stderr |-> <<>>,
              stdout |-> <<>>, file |-> None, exit |-> None]

\* The error callback handed to parse.
CliOnError(c) ==
    [c EXCEPT !.pc = "exited",
              !.stdout = Append(c.stdout, "Error parsing"),
              !.exit = Some(1)]

\* The success callback handed to parse.
CliOnSuccess(c, output) ==
    IF IsSome(output)
    THEN [c EXCEPT !.pc = "written", !.file = Some("html")]
    ELSE [c EXCEPT !.pc = "exited",
                   !.stdout = Append(c.stdout, "html"),
                   !.exit = Some(0)]

\* The input the entry point settles on, none when it reports the usage
\* error: program.input when truthy, else the only positional argument.
ChosenInput(prog) ==
    IF IsSome(prog.input) THEN prog.input
    ELSE IF Len(prog.args) # 1 THEN None
    ELSE Some(prog.args[1])

\* The body of `if (require.main === module)`.  program.help() is
\* commander's and is taken to print the usage and return, so that
\* process.exit(1) runs.  parse(true, ...) reaches sourceToRamlObj's last
\* branch, which calls the error callback before parse returns.
Main ==
    /\ cli.pc = "start"
    /\ LET input == ChosenInput(program) IN
         IF ~IsSome(input)
         THEN cli' = [cli EXCEPT !.pc = "exited",
                        !.stderr = <<"Error: You need to specify the RAML input file",
                                     "usage">>,
                        !.exit = Some(1)]
         ELSE IF Get(input) = FlagOnly
         THEN cli' = CliOnError([cli EXCEPT !.parsing = input])
         ELSE cli' = [cli EXCEPT !.pc = "parsing", !.parsing = input]
    /\ UNCHANGED <<program, annotateVars, helperVars, pipelineVars>>

\* parse calls back with the HTML.
ParseSucceeds ==
    /\ cli.pc = "parsing"
    /\ cli' = CliOnSuccess(cli, program.output)
    /\ UNCHANGED <<program, annotateVars, helperVars, pipelineVars>>

\* parse calls back with an error.
ParseFails ==
    /\ cli.pc = "parsing"
    /\ cli' = CliOnError(cli)
    /\ UNCHANGED <<program, annotateVars, helperVars, pipelineVars>>

NextCli ==
    \/ Main
    \/ ParseSucceeds
    \/ ParseFails

SpecCli == InitCli /\ [][NextCli]_vars

----------------------------------------------------------------------------
(* The compilation driver.  A config is a record of templateEngine,        *)
(* helpers and partials (a value or None per name) and templateOptions     *)
(* (absent, or a value or None per key).  Whether the template renders is  *)
(* the engine's answer, given when it calls back.                          *)

\* The engines consolidate provides, of which the samples use two.
Engines == {"handlebars", "underscore"}

OptionKeys == {"title", "version"}

Config(engine, lock, md, resource, options) ==
    [templateEngine |-> engine,
     helpers |-> [n \in HelperNames |->
                     IF n = "lock" THEN lock ELSE md],
     partials |-> [n \in PartialNames |-> resource],
     templateOptions |-> options]

NoOptions == [k \in OptionKeys |-> None]

\* The config parse builds.
DefaultConfig ==
    Config("handlebars", Some("lockIconHelper"), Some("markDownHelper"),
           Some("resource.handlebars"), Some(NoOptions))

ConfigPool ==
    { DefaultConfig,
      Config("underscore", Some("myLock"), None, None, None),
      Config("mustachio", None, Some("myMd"), Some("my.handlebars"),
             Some([NoOptions EXCEPT !["title"] = Some("API"),
                                    !["version"] = Some("v2")])) }

\* An object as handed to compileRamlObj: the document, and the top-level
\* properties compileRamlObj adds.
Tree(doc) == [doc |-> doc, config |-> None, helpers |-> None, title |-> None]

TreePool ==
    { Tree(Document(0, None, <<>>, <<>>, <<>>)),
      Tree(Document(2, Some(<<"http://api/", "{version}">>), <<0, 1>>,
                    <<(<<"/", "a", "1">>), (<<"/", "{", "b", "_", "}">>)>>,
                    <<1, 1>>)) }

\* Faulty variant: a name that is already registered keeps its first value.
registerAll_FirstWins(registered, entries) ==
    [n \in DOMAIN registered |->
        IF IsSome(registered[n]) THEN registered[n] ELSE entries[n]]

\* The two registration loops: registerHelper / registerPartial overwrite
\* whatever the name was bound to.
registerAll(registered, entries) ==
    [n \in DOMAIN registered |->
        IF IsSome(entries[n]) THEN entries[n] ELSE registered[n]]

\* for (var k in config.templateOptions) ramlObj[k] = ...
mergeOptions(tree, options) ==
    IF ~IsSome(options) THEN tree
    ELSE LET t1 == IF IsSome(Get(options)["title"])
                   THEN [tree EXCEPT !.title = Get(options)["title"]]
                   ELSE tree
         IN  IF IsSome(Get(options)["version"])
             THEN [t1 EXCEPT !.doc.version = Get(Get(options)["version"])]
             ELSE t1

\* compileRamlObj up to its call of the engine.  obj is None for null,
\* whose baseUri cannot be read; an engine consolidate does not provide is
\* undefined and cannot be called.  outcome: "threw" or "rendering".
compileRamlObj(obj, config, reg) ==
    IF ~IsSome(obj)
    THEN [outcome |-> "threw", tree |-> obj, registry |-> reg]
    ELSE LET t1 == [Get(obj) EXCEPT !.doc = traverse(parseBaseUri(Get(obj).doc))]
             t2 == [t1 EXCEPT !.config = Some(config)]
             reg1 == [helpers |-> registerAll(reg.helpers, config.helpers),
                      partials |-> registerAll(reg.partials, config.partials)]
             t3 == IF config.templateEngine # "handlebars"
                   THEN [t2 EXCEPT !.helpers = Some(config.helpers)]
                   ELSE t2
             t4 == mergeOptions(t3, config.templateOptions)
         IN  [outcome |-> IF config.templateEngine \in Engines
                          THEN "rendering" ELSE "threw",
              tree |-> Some(t4), registry |-> reg1]

----------------------------------------------------------------------------
(* The source loader and parseWithConfig.  A call's events are what the    *)
(* caller can observe, in order: "returned" (parseWithConfig returned),    *)
(* "onSuccess", "onError", and "threw" (compileRamlObj threw inside the    *)
(* loader's success continuation).                                         *)

SourceKinds == {"file", "text", "buffer", "object", "null", "other"}

Sources ==
    {[kind |-> k, value |-> None] : k \in SourceKinds \ {"object"}}
    \cup {[kind |-> "object", value |-> Some(t)] : t \in TreePool}

NewCall(source, config) ==
    [source |-> source.kind, config |-> config, pc |-> "new",
     tree |-> source.value, events |-> <<>>, failure |-> None,
     compiled |-> FALSE, used |-> None]

\* sourceToRamlObj as parseWithConfig calls it, up to its return.  typeof
\* null is 'object'.
sourceToRamlObj(call) ==
    IF call.source \in {"file", "text"}
    THEN [call EXCEPT !.pc = "loading", !.events = <<"returned">>]
    ELSE IF call.source = "buffer"
    THEN [call EXCEPT !.pc = "loading", !.events = <<"returned">>]
    ELSE IF call.source \in {"object", "null"}
    THEN [call EXCEPT !.pc = "tick", !.events = <<"returned">>]
    ELSE [call EXCEPT !.pc = "done", !.events = <<"onError", "returned">>,
                      !.failure = Some("argument")]

parseWithConfig(source, config) ==
    /\ ~crashed
    /\ Len(calls) < MaxCalls
    /\ calls' = Append(calls, sourceToRamlObj(NewCall(source, config)))
    /\ UNCHANGED <<registry, registrations, crashed>>
    /\ UNCHANGED <<annotateVars, helperVars, cliVars>>

\* The loader's success continuation, function(ramlObj) { compileRamlObj(
\* ramlObj, config, onSuccess, onError) }, run for call i on obj.  An
\* exception inside a promise continuation rejects the promise `then`
\* returned, which nobody holds; one inside a nextTick callback reaches the
\* event loop.
Continue(i, obj, uncaught) ==
    LET r == compileRamlObj(obj, calls[i].config, registry)
        threw == r.outcome = "threw"
    IN  /\ calls' = [calls EXCEPT ![i] =
                 [@ EXCEPT !.pc = r.outcome, !.tree = r.tree,
                           !.compiled = TRUE,
                           !.events = IF threw THEN Append(@, "threw") ELSE @,
                           !.failure = IF threw THEN Some("compile") ELSE @]]
        /\ registry' = r.registry
        /\ registrations' = IF IsSome(obj)
                            THEN Append(registrations, calls[i].config)
                            ELSE registrations
        /\ crashed' = (threw /\ uncaught)
        /\ UNCHANGED <<annotateVars, helperVars, cliVars>>

\* raml.loadFile / raml.load fulfils its promise with a parsed document.
LoadFulfilled(i) ==
    /\ ~crashed
    /\ calls[i].pc = "loading"
    /\ \E t \in TreePool : Continue(i, Some(t), FALSE)

\* raml.loadFile / raml.load rejects its promise: onError(error).
LoadRejected(i) ==
    /\ ~crashed
    /\ calls[i].pc = "loading"
    /\ calls' = [calls EXCEPT ![i] =
            [@ EXCEPT !.pc = "done", !.events = Append(@, "onError"),
                      !.failure = Some("parse")]]
    /\ UNCHANGED <<registry, registrations, crashed>>
    /\ UNCHANGED <<annotateVars, helperVars, cliVars>>

\* The process.nextTick callback: onSuccess(source).
Tick(i) ==
    /\ ~crashed
    /\ calls[i].pc = "tick"
    /\ Continue(i, calls[i].tree, TRUE)

\* The engine calls back: function(err, html).  A handlebars template
\* resolves its helpers in the registry as it runs; the other engines get
\* them from the context (ramlObj.helpers).
RenderDone(i, err) ==
    /\ ~crashed
    /\ calls[i].pc = "rendering"
    /\ calls' = [calls EXCEPT ![i] =
            [@ EXCEPT !.pc = "done",
                      !.events = Append(@, IF err THEN "onError" ELSE "onSuccess"),
                      !.failure = IF err THEN Some("render") ELSE @,
                      !.used = IF err THEN None
                               ELSE IF calls[i].config.templateEngine = "handlebars"
                               THEN Some(registry.helpers)
                               ELSE Get(calls[i].tree).helpers]]
    /\ UNCHANGED <<registry, registrations, crashed>>
    /\ UNCHANGED <<annotateVars, helperVars, cliVars>>

InitPipeline ==
    /\ AnnotateIdle
    /\ HelpersIdle
    /\ CliIdle
    /\ PipelineIdle

NextPipeline ==
    \/ \E source \in Sources, config \in ConfigPool : parseWithConfig(source, config)
    \/ \E i \in 1..Len(calls) : LoadFulfilled(i)
    \/ \E i \in 1..Len(calls) : LoadRejected(i)
    \/ \E i \in 1..Len(calls) : Tick(i)
    \/ \E i \in 1..Len(calls), err \in BOOLEAN : RenderDone(i, err)

SpecPipeline == InitPipeline /\ [][NextPipeline]_vars

----------------------------------------------------------------------------
(* Properties of the annotation pass. *)

Nodes == 1..Len(ramlObj.nodes)

\* The resources from the top-level one down to i itself.
RECURSIVE Path(_)
Path(i) ==
    IF ramlObj.parent[i] = 0 THEN <<i>> ELSE Path(ramlObj.parent[i]) \o <<i>>

Ancestors(i) == SubSeq(Path(i), 1, Len(Path(i)) - 1)

OnPath(i) == {Path(i)[k] : k \in 1..Len(Path(i))}

\* What the parser declared on resource j, in declaration order.
Declared(j) == Own(ramlObj.nodes[j])

RECURSIVE DeclaredAlong(_)
DeclaredAlong(path) ==
    IF path = <<>> THEN <<>>
    ELSE Declared(Head(path)) \o DeclaredAlong(Tail(path))

RECURSIVE CountAlong(_)
CountAlong(path) ==
    IF path = <<>> THEN 0
    ELSE Len(Declared(Head(path))) + CountAlong(Tail(path))

RECURSIVE UriAlong(_)
UriAlong(path) ==
    IF path = <<>> THEN <<>>
    ELSE ramlObj.nodes[Head(path)].relativeUri \o UriAlong(Tail(path))

Annotated == stage # "parsed"

\* C1: after traverse, every resource's allUriParameters is the own
\* parameters of its ancestors in root-to-parent order followed by its own
\* in declaration order; its length is the sum of the own-parameter counts
\* along the path, and it holds no parameter declared off that path (on a
\* sibling or a descendant).
C1_AllUriParameters ==
    Annotated =>
        \A i \in Nodes :
            LET all == ramlObj.nodes[i].allUriParameters IN
            /\ IsSome(all)
            /\ Get(all) = DeclaredAlong(Ancestors(i)) \o Declared(i)
            /\ Len(Get(all)) = CountAlong(Path(i))
            /\ \A k \in 1..Len(Get(all)) : Get(all)[k][1] \in OnPath(i)

\* A resource below the top level with two own parameters under a parent
\* with parameters, beside a sibling or above a descendant with parameters.
C1_Witness ==
    /\ Annotated
    /\ \E i, j \in Nodes :
          /\ ramlObj.parent[i] # 0
          /\ Len(Declared(ramlObj.parent[i])) > 0
          /\ Len(Declared(i)) = 2
          /\ j \notin OnPath(i)
          /\ Len(Declared(j)) > 0
          /\ Len(Get(ramlObj.nodes[i].allUriParameters)) > 2

\* C2: after traverse, every resource's parentUrl is the concatenation of
\* its ancestors' relativeUri in root-to-parent order (empty for a
\* top-level resource), and uniqueId is parentUrl + relativeUri with each
\* character outside [A-Za-z0-9_] replaced by one underscore, so that
\* uniqueId holds word characters only.
C2_ParentUrlAndUniqueId ==
    Annotated =>
        \A i \in Nodes :
            LET r == ramlObj.nodes[i]
                full == UriAlong(Path(i))
            IN  /\ r.parentUrl = Some(UriAlong(Ancestors(i)))
                /\ IsSome(r.uniqueId)
                /\ Len(Get(r.uniqueId)) = Len(full)
                /\ \A k \in 1..Len(full) :
                      /\ full[k] \in WordChars => Get(r.uniqueId)[k] = full[k]
                      /\ full[k] \notin WordChars => Get(r.uniqueId)[k] = "_"
                      /\ Get(r.uniqueId)[k] \in WordChars

\* A resource two levels below a top-level one whose full URL holds
\* characters that are replaced and characters that are kept.
C2_Witness ==
    /\ Annotated
    /\ \E i \in Nodes :
          /\ Len(Path(i)) = 3
          /\ Get(ramlObj.nodes[i].parentUrl) # <<>>
          /\ \E k \in 1..Len(UriAlong(Path(i))) :
                UriAlong(Path(i))[k] \notin WordChars
          /\ Get(ramlObj.nodes[i].uniqueId) # UriAlong(Path(i))

\* The annotations of every resource.
Annotations(obj) ==
    [i \in 1..Len(obj.nodes) |->
        <<obj.nodes[i].parentUrl, obj.nodes[i].uniqueId,
          obj.nodes[i].allUriParameters>>]

\* C10: annotating an annotated document again leaves every resource's
\* parentUrl, uniqueId and allUriParameters as the first run set them.
C10_Idempotent ==
    [][Annotated => Annotations(ramlObj') = Annotations(ramlObj)]_vars

\* A document annotated twice in which a resource has inherited and own
\* parameters.
C10_Witness ==
    /\ stage = "reannotated"
    /\ \E i \in Nodes :
          /\ ramlObj.parent[i] # 0
          /\ Len(Declared(ramlObj.parent[i])) > 0
          /\ Len(Declared(i)) > 0

----------------------------------------------------------------------------
(* Properties of the render helpers. *)

LockCalls == {k \in 1..Len(helperCalls) : helperCalls[k].helper = "lock"}

\* The list without its first null entry, if it has one.
WithoutOneNull(list) ==
    IF \E i \in 1..Len(list) : list[i] = Null
    THEN LET i == CHOOSE i \in 1..Len(list) :
                     list[i] = Null /\ \A j \in 1..(i - 1) : list[j] # Null
         IN  [k \in 1..(Len(list) - 1) |-> IF k < i THEN list[k] ELSE list[k + 1]]
    ELSE list

SchemeRemains(arg) ==
    /\ IsSome(arg)
    /\ \E k \in 1..Len(WithoutOneNull(Get(arg))) :
          WithoutOneNull(Get(arg))[k] # Null

\* C7: lockIconHelper returns the icon marker exactly when a non-null
\* scheme remains after one null entry is removed from the list it is
\* given, and the empty string otherwise.
C7_LockIconIffScheme ==
    \A k \in LockCalls :
        /\ helperCalls[k].result \in {LockIcon, EmptyString}
        /\ helperCalls[k].result = LockIcon <=> SchemeRemains(helperCalls[k].arg)

\* C8: a helper leaves its argument as it was, and lockIconHelper called
\* again on the same list returns what it returned before.
C8_HelpersPure ==
    /\ \A k \in 1..Len(helperCalls) : helperCalls[k].after = helperCalls[k].arg
    /\ \A j, k \in LockCalls : helperCalls[j].result = helperCalls[k].result

----------------------------------------------------------------------------
(* Properties of the command-line entry point. *)

\* Exactly one input: -i alone, or one positional argument alone.
ExactlyOneInput ==
    \/ IsSome(program.input) /\ Len(program.args) = 0
    \/ ~IsSome(program.input) /\ Len(program.args) = 1

\* C9: once the entry point has looked at its arguments, parsing has been
\* started exactly when one input was supplied; in every other case the
\* usage error has been printed, the process has exited with status 1 and
\* no parse was started.
C9_ParseIffExactlyOneInput ==
    cli.pc # "start" =>
        /\ IsSome(cli.parsing) <=> ExactlyOneInput
        /\ ~ExactlyOneInput =>
              /\ cli.pc = "exited"
              /\ cli.exit = Some(1)
              /\ cli.stderr # <<>>

----------------------------------------------------------------------------
(* Properties of the source loader and the compilation driver. *)

Calls == 1..Len(calls)

Callbacks == {"onSuccess", "onError"}

Count(events, e) == Cardinality({k \in 1..Len(events) : events[k] = e})

\* The call has nothing left to run.
Settled(c) == c.pc \in {"done", "threw"}

\* C3: for every source shape, no callback is invoked before the call that
\* was handed it has returned.
C3_CallbackAfterReturn ==
    \A i \in Calls :
        \A k \in 1..Len(calls[i].events) :
            calls[i].events[k] \in Callbacks =>
                \E j \in 1..(k - 1) : calls[i].events[j] = "returned"

\* C4: every invocation of compileRamlObj on a tree that has run to its end
\* has invoked exactly one of onSuccess and onError, exactly once, and
\* onError exactly when rendering failed.
C4_ExactlyOneCallback ==
    \A i \in Calls :
        (calls[i].compiled /\ IsSome(calls[i].tree) /\ Settled(calls[i])) =>
            /\ Count(calls[i].events, "onSuccess")
                 + Count(calls[i].events, "onError") = 1
            /\ Count(calls[i].events, "onError") = 1 <=> IsSome(calls[i].failure)

\* C5: a parseWithConfig invocation in which a step failed and that has
\* run to its end has invoked onError, and has not invoked onSuccess.
C5_FailureSurfaced ==
    \A i \in Calls :
        (Settled(calls[i]) /\ IsSome(calls[i].failure)) =>
            /\ Count(calls[i].events, "onError") >= 1
            /\ Count(calls[i].events, "onSuccess") = 0

\* The value the latest of the registered configs naming n gave it, None
\* when none named it.
RECURSIVE LastBinding(_, _, _)
LastBinding(log, kind, n) ==
    IF log = <<>> THEN None
    ELSE LET last == log[Len(log)] IN
         IF IsSome(last[kind][n]) THEN last[kind][n]
         ELSE LastBinding(SubSeq(log, 1, Len(log) - 1), kind, n)

\* C6: the registry is shared by all calls and the last registration wins:
\* every helper and partial name is bound to the value given by the most
\* recent compileRamlObj whose config named it, and a name once bound stays
\* bound.
C6_LastRegistrationWins ==
    /\ \A n \in HelperNames :
          registry.helpers[n] = LastBinding(registrations, "helpers", n)
    /\ \A n \in PartialNames :
          registry.partials[n] = LastBinding(registrations, "partials", n)

\* Two overlapping calls bind the same helper name differently, and the
\* first call's render, finishing after the second call registered, ran with
\* the second call's helper.
C6_Witness ==
    \E i, j \in Calls : \E n \in HelperNames :
        /\ i < j
        /\ calls[i].pc = "done" /\ IsSome(calls[i].used)
        /\ calls[j].compiled
        /\ calls[i].config.templateEngine = "handlebars"
        /\ IsSome(calls[i].config.helpers[n])
        /\ IsSome(calls[j].config.helpers[n])
        /\ calls[i].config.helpers[n] # calls[j].config.helpers[n]
        /\ Get(calls[i].used)[n] = calls[j].config.helpers[n]

====
